---- MODULE Spec2Model ----
(***************************************************************************)
(* The report descriptor compiler of hidreport (src/src/lib.rs): the       *)
(* parser state (Stack), the bit-offset tracker (Offsets), the field       *)
(* compiler (handle_main_item, compile_usages) and the item loop of        *)
(* parse_report_descriptor, one action per match arm of the loop.          *)
(*                                                                         *)
(* Option<T> is a sequence: <<>> is None, <<v>> is Some(v).                *)
(* usize values are kept as integers modulo 2^64 in two's complement       *)
(* representation: usize::MAX is -1, so wrapping addition is integer       *)
(* addition and a value below zero stands for one at the top of the range. *)
(***************************************************************************)
EXTENDS Integers, Sequences, FiniteSets, TLC

VARIABLES
    globals,          \* Stack.globals: Vec<Globals>
    locals,           \* Stack.locals: Vec<Locals>
    collections,      \* Stack.collections: Vec<Collection>
    bit_offset,       \* Offsets.bit_offset
    bit_offsets,      \* Offsets.bit_offsets: HashMap<ReportId, usize>
    fields,           \* the fields the item loop has collected, in emission order
    item,             \* the item the loop processed last (rdesc_item.item())
    remaining,        \* how many items of the descriptor are still to come
    pc,               \* "parsing", "panicked", or the Result returned to the
                      \* caller: "Ok", "Err(InvalidData)", "Err(OutOfBounds)"
    panic_msg,        \* the panic message once pc = "panicked"
    overflow_checks,  \* the build: TRUE panics on usize overflow, FALSE wraps
    pushed,           \* history: the snapshot that was current at each open Push
    popped            \* history: the snapshot the last item's Stack::pop removed

vars == <<globals, locals, collections, bit_offset, bit_offsets, fields, item,
          remaining, pc, panic_msg, overflow_checks, pushed, popped>>

----------------------------------------------------------------------------
(* Bounds of the model and the values the descriptor's items draw from.    *)

MaxItems == 4
MaxStackItems == 4
MaxFieldItems == 4
MaxScopeItems == 4
MaxRangeItems == 4
MaxCollectionItems == 4
MaxCount == 3

None == <<>>
Some(v) == <<v>>
IsSome(o) == o # <<>>
Unwrap(o) == o[1]

(* A ReportSize is a number of bits greater than zero, a ReportId is       *)
(* nonzero; a ReportCount may be zero.                                     *)
UsagePages == {1, 2}
EmbeddedPages == {3}
UsageIds == {1, 2}
UsageBounds == {1, 2}
LogicalValues == {0, 1}
PhysicalValues == {0, 1}
UnitExponents == {1}
Units == {1}
ReportSizes == {1, 2}
ReportIds == {1, 2}
ReportCounts == 0..MaxCount
CollectionKinds == {0, 1}
LocalValues == {1}
Directions == {"Input", "Output", "Feature"}

----------------------------------------------------------------------------
(* Globals::default(), Locals::default()                                   *)

DefaultGlobals ==
    [usage_page |-> None, logical_minimum |-> None, logical_maximum |-> None,
     physical_minimum |-> None, physical_maximum |-> None,
     unit_exponent |-> None, unit |-> None, report_size |-> None,
     report_id |-> None, report_count |-> None]

DefaultLocals ==
    [usage |-> None, usage_minimum |-> None, usage_maximum |-> None,
     designator_index |-> None, designator_minimum |-> None,
     designator_maximum |-> None, string_index |-> None,
     string_minimum |-> None, string_maximum |-> None, delimiter |-> None]

LocalUsage(page, id) == [usage_page |-> page, usage_id |-> id]
Usage(page, id) == [usage_page |-> page, usage_id |-> id]

Last(s) == s[Len(s)]
Front(s) == SubSeq(s, 1, Len(s) - 1)

(* Vec::pop: removes the last element; on an empty Vec it does nothing.    *)
VecPop(s) == IF s = <<>> THEN s ELSE Front(s)

(* Stack::new, Offsets::new                                                *)
StackNew ==
    [globals |-> <<DefaultGlobals>>, locals |-> <<DefaultLocals>>,
     collections |-> <<>>]

OffsetsNew == [bit_offset |-> 0, bit_offsets |-> <<>>]

NoItem == [class |-> "None", tag |-> "None", data |-> 0]
Item(class, tag, data) == [class |-> class, tag |-> tag, data |-> data]

(* The state after Stack::new() and Offsets::new(), before the first item   *)
(* of a descriptor of n items, with the globals snapshot g current.        *)
Start(g, n) ==
    /\ globals = <<g>>
    /\ locals = StackNew.locals
    /\ collections = StackNew.collections
    /\ bit_offset = OffsetsNew.bit_offset
    /\ bit_offsets = OffsetsNew.bit_offsets
    /\ fields = <<>>
    /\ item = NoItem
    /\ remaining = n
    /\ pc = "parsing"
    /\ panic_msg = ""
    /\ overflow_checks \in BOOLEAN
    /\ pushed = <<>>
    /\ popped = None

Init == Start(Last(StackNew.globals), MaxItems)

----------------------------------------------------------------------------
(* usize arithmetic. With overflow checks every value is in range, so an   *)
(* operation overflows exactly when its result leaves 0..; without them    *)
(* the result wraps, which the representation gives by integer addition.   *)

Overflows(x) == overflow_checks /\ x < 0

(* Unsigned order on the representation.                                   *)
ULe(a, b) == IF (a < 0) = (b < 0) THEN a <= b ELSE b < 0

RangeInclusive(start, end) == [start |-> start, end |-> end]

Panicked(msg) == [panic |-> msg, fields |-> <<>>, offset |-> 0]
UnwrapNone == "called Option::unwrap() on a None value"
SubOverflow == "attempt to subtract with overflow"

----------------------------------------------------------------------------
(* compile_usages                                                          *)

UsageRange(min, max, usage_page) ==
    IF min > max THEN <<>>
    ELSE [i \in 1..(max - min + 1) |-> Usage(usage_page, (min + i - 1) % 65536)]

compile_usages_global_page(g, l) ==
    IF IsSome(l.usage_minimum)
    THEN IF ~IsSome(l.usage_maximum)
         THEN [panic |-> "Missing UsageMaximum in locals", usages |-> <<>>]
         ELSE IF ~IsSome(g.usage_page)
         THEN [panic |-> "Missing UsagePage in globals", usages |-> <<>>]
         ELSE [panic |-> "",
               usages |-> UsageRange(Unwrap(l.usage_minimum),
                                     Unwrap(l.usage_maximum),
                                     Unwrap(g.usage_page))]
    ELSE IF ~IsSome(l.usage)
         THEN [panic |-> "Missing Usage in locals", usages |-> <<>>]
         ELSE IF ~IsSome(g.usage_page)
         THEN [panic |-> "Missing UsagePage in globals", usages |-> <<>>]
         ELSE [panic |-> "",
               usages |-> <<Usage(Unwrap(g.usage_page),
                                  Unwrap(l.usage).usage_id)>>]

compile_usages(g, l) ==
    IF IsSome(l.usage_minimum)
    THEN IF ~IsSome(l.usage_maximum)
         THEN [panic |-> "Missing UsageMaximum in locals", usages |-> <<>>]
         ELSE IF ~IsSome(g.usage_page)
         THEN [panic |-> "Missing UsagePage in globals", usages |-> <<>>]
         ELSE [panic |-> "",
               usages |-> UsageRange(Unwrap(l.usage_minimum),
                                     Unwrap(l.usage_maximum),
                                     Unwrap(g.usage_page))]
    ELSE IF ~IsSome(l.usage)
         THEN [panic |-> "Missing Usage in locals", usages |-> <<>>]
         ELSE IF IsSome(Unwrap(l.usage).usage_page)
         THEN [panic |-> "",
               usages |-> <<Usage(Unwrap(Unwrap(l.usage).usage_page),
                                  Unwrap(l.usage).usage_id)>>]
         ELSE IF ~IsSome(g.usage_page)
         THEN [panic |-> "Missing UsagePage in globals", usages |-> <<>>]
         ELSE [panic |-> "",
               usages |-> <<Usage(Unwrap(g.usage_page),
                                  Unwrap(l.usage).usage_id)>>]

----------------------------------------------------------------------------
(* handle_main_item                                                        *)

(* The bucket of a report id: the standalone offset for None, else the     *)
(* map's entry, inserted as 0 at first use.                                *)
BucketOffset(report_id) ==
    IF report_id = None THEN bit_offset
    ELSE IF Unwrap(report_id) \in DOMAIN bit_offsets
         THEN bit_offsets[Unwrap(report_id)]
         ELSE 0

ConstantWidth(report_size, report_count) == report_size * report_count - 1

ConstantAdvance(off, nbits) == off + nbits

ConstantItem(g, direction, off) ==
    LET nbits == ConstantWidth(Unwrap(g.report_size), Unwrap(g.report_count))
    IN  IF Overflows(nbits) THEN Panicked(SubOverflow)
        ELSE [panic |-> "",
              fields |-> <<[kind |-> "Constant",
                            bits |-> RangeInclusive(off, off + nbits),
                            report_id |-> g.report_id,
                            direction |-> direction]>>,
              offset |-> ConstantAdvance(off, nbits)]

PhysicalRange(g) ==
    IF IsSome(g.physical_minimum) /\ IsSome(g.physical_maximum)
    THEN Some([minimum |-> Unwrap(g.physical_minimum),
               maximum |-> Unwrap(g.physical_maximum)])
    ELSE None

LogicalRange(g) ==
    [minimum |-> Unwrap(g.logical_minimum),
     maximum |-> Unwrap(g.logical_maximum)]

StickyUsageFirst(usages, c) ==
    IF c < Len(usages) THEN usages[c + 1] ELSE usages[1]

(* usages.get(c).or_else(|| usages.last()), c counted from 0               *)
StickyUsage(usages, c) ==
    IF c < Len(usages) THEN usages[c + 1] ELSE Last(usages)

RECURSIVE VariableFields(_, _, _, _, _, _)
VariableFields(c, g, direction, off, usages, colls) ==
    IF c >= Unwrap(g.report_count)
    THEN [panic |-> "", fields |-> <<>>, offset |-> off]
    ELSE LET nbits == Unwrap(g.report_size)
             end == off + nbits - 1
         IN  IF Overflows(end) THEN Panicked(SubOverflow)
             ELSE IF usages = <<>> THEN Panicked(UnwrapNone)
             ELSE LET field == [kind |-> "Variable",
                                usage |-> StickyUsage(usages, c),
                                bits |-> RangeInclusive(off, end),
                                logical_range |-> LogicalRange(g),
                                physical_range |-> PhysicalRange(g),
                                unit |-> g.unit,
                                unit_exponent |-> g.unit_exponent,
                                collections |-> colls,
                                report_id |-> g.report_id,
                                direction |-> direction]
                      rest == VariableFields(c + 1, g, direction, off + nbits,
                                             usages, colls)
                  IN  IF rest.panic # "" THEN rest
                      ELSE [panic |-> "",
                            fields |-> <<field>> \o rest.fields,
                            offset |-> rest.offset]

ArrayItem(g, direction, off, usages, colls) ==
    LET nbits == Unwrap(g.report_size) * Unwrap(g.report_count)
        end == off + nbits - 1
    IN  IF Overflows(end) THEN Panicked(SubOverflow)
        ELSE [panic |-> "",
              fields |-> <<[kind |-> "Array",
                            usages |-> usages,
                            bits |-> RangeInclusive(off, end),
                            logical_range |-> LogicalRange(g),
                            physical_range |-> PhysicalRange(g),
                            unit |-> g.unit,
                            unit_exponent |-> g.unit_exponent,
                            collections |-> colls,
                            report_id |-> g.report_id,
                            direction |-> direction]>>,
              offset |-> off + nbits]

(* The fields a Main Input/Output/Feature item yields and the new offset   *)
(* of its bucket, or the panic that ends the parse.                        *)
handle_main_item(direction, flags) ==
    IF globals = <<>> \/ locals = <<>> THEN Panicked(UnwrapNone)
    ELSE LET g == Last(globals)
             l == Last(locals)
             off == BucketOffset(g.report_id)
         IN  IF ~IsSome(g.report_size)
             THEN Panicked("Missing report size in globals")
             ELSE IF ~IsSome(g.report_count)
             THEN Panicked("Missing report count in globals")
             ELSE IF flags.is_constant THEN ConstantItem(g, direction, off)
             ELSE IF ~IsSome(g.logical_minimum)
             THEN Panicked("Missing LogicalMinimum")
             ELSE IF ~IsSome(g.logical_maximum)
             THEN Panicked("Missing LogicalMaximum")
             ELSE LET u == compile_usages(g, l)
                  IN  IF u.panic # "" THEN Panicked(u.panic)
                      ELSE IF flags.is_variable
                      THEN VariableFields(0, g, direction, off, u.usages,
                                          collections)
                      ELSE ArrayItem(g, direction, off, u.usages, collections)

----------------------------------------------------------------------------
(* The item loop of parse_report_descriptor: one action per match arm.     *)

(* The loop takes the next item of the descriptor.                         *)
Process(it) ==
    /\ pc = "parsing"
    /\ remaining > 0
    /\ item' = it
    /\ remaining' = remaining - 1
    /\ popped' = IF it.class = "Global" /\ it.tag = "Pop" /\ globals # <<>>
                 THEN Some(Last(globals))
                 ELSE None
    /\ UNCHANGED overflow_checks

(* A panic unwinds out of the parse: nothing of the state is seen again.   *)
Panic(msg) ==
    /\ pc' = "panicked"
    /\ panic_msg' = msg
    /\ UNCHANGED <<globals, locals, collections, bit_offset, bit_offsets,
                   fields, pushed>>

Continue == UNCHANGED <<pc, panic_msg>>

CurrentIndexFirst(stack) == 1

(* Stack::globals, Stack::locals: last_mut() of the Vec                    *)
CurrentIndex(stack) == Len(stack)

(* update_stack!(stack, globals, which, from)                              *)
UpdateGlobals(which, from) ==
    IF globals = <<>> THEN Panic(UnwrapNone)
    ELSE /\ globals' = [globals EXCEPT ![CurrentIndex(globals)][which] = Some(from)]
         /\ Continue
         /\ UNCHANGED <<locals, collections, bit_offset, bit_offsets, fields,
                        pushed>>

(* update_stack!(stack, locals, which, from)                               *)
UpdateLocals(which, from) ==
    IF locals = <<>> THEN Panic(UnwrapNone)
    ELSE /\ locals' = [locals EXCEPT ![CurrentIndex(locals)][which] = Some(from)]
         /\ Continue
         /\ UNCHANGED <<globals, collections, bit_offset, bit_offsets, fields,
                        pushed>>

NoEffect ==
    /\ Continue
    /\ UNCHANGED <<globals, locals, collections, bit_offset, bit_offsets,
                   fields, pushed>>

MainCollection ==
    \E kind \in CollectionKinds :
        /\ Process(Item("Main", "Collection", kind))
        /\ collections' = Append(collections, kind)
        /\ Continue
        /\ UNCHANGED <<globals, locals, bit_offset, bit_offsets, fields, pushed>>

MainEndCollectionKeepsPath ==
    /\ Process(Item("Main", "EndCollection", 0))
    /\ Continue
    /\ UNCHANGED <<globals, locals, collections, bit_offset, bit_offsets,
                   fields, pushed>>

MainEndCollection ==
    /\ Process(Item("Main", "EndCollection", 0))
    /\ collections' = VecPop(collections)
    /\ Continue
    /\ UNCHANGED <<globals, locals, bit_offset, bit_offsets, fields, pushed>>

(* Stack::reset_locals                                                     *)
ResetLocals == <<DefaultLocals>>

MainData ==
    \E direction \in Directions, is_constant \in BOOLEAN, is_variable \in BOOLEAN :
        LET flags == [is_constant |-> is_constant, is_variable |-> is_variable]
            r == handle_main_item(direction, flags)
        IN  /\ Process(Item("Main", direction, flags))
            /\ IF r.panic # "" THEN Panic(r.panic)
               ELSE /\ fields' = fields \o r.fields
                    /\ IF Last(globals).report_id = None
                       THEN /\ bit_offset' = r.offset
                            /\ UNCHANGED bit_offsets
                       ELSE /\ bit_offsets' =
                                 (Unwrap(Last(globals).report_id) :> r.offset)
                                     @@ bit_offsets
                            /\ UNCHANGED bit_offset
                    /\ locals' = ResetLocals
                    /\ Continue
                    /\ UNCHANGED <<globals, collections, pushed>>

LongItem == Process(Item("Long", "Long", 0)) /\ NoEffect

ReservedItem == Process(Item("Reserved", "Reserved", 0)) /\ NoEffect

GlobalUsagePage ==
    \E v \in UsagePages :
        Process(Item("Global", "UsagePage", v)) /\ UpdateGlobals("usage_page", v)

GlobalLogicalMinimum ==
    \E v \in LogicalValues :
        /\ Process(Item("Global", "LogicalMinimum", v))
        /\ UpdateGlobals("logical_minimum", v)

GlobalLogicalMaximum ==
    \E v \in LogicalValues :
        /\ Process(Item("Global", "LogicalMaximum", v))
        /\ UpdateGlobals("logical_maximum", v)

GlobalPhysicalMinimum ==
    \E v \in PhysicalValues :
        /\ Process(Item("Global", "PhysicalMinimum", v))
        /\ UpdateGlobals("physical_minimum", v)

GlobalPhysicalMaximum ==
    \E v \in PhysicalValues :
        /\ Process(Item("Global", "PhysicalMaximum", v))
        /\ UpdateGlobals("physical_maximum", v)

GlobalUnitExponent ==
    \E v \in UnitExponents :
        /\ Process(Item("Global", "UnitExponent", v))
        /\ UpdateGlobals("unit_exponent", v)

GlobalUnit ==
    \E v \in Units :
        Process(Item("Global", "Unit", v)) /\ UpdateGlobals("unit", v)

GlobalReportSize ==
    \E v \in ReportSizes :
        Process(Item("Global", "ReportSize", v)) /\ UpdateGlobals("report_size", v)

GlobalReportId ==
    \E v \in ReportIds :
        Process(Item("Global", "ReportId", v)) /\ UpdateGlobals("report_id", v)

GlobalReportCount ==
    \E v \in ReportCounts :
        /\ Process(Item("Global", "ReportCount", v))
        /\ UpdateGlobals("report_count", v)

(* Stack::push: each Vec gets a copy of its last element.                  *)
StackPush ==
    IF globals = <<>> \/ locals = <<>> THEN Panic(UnwrapNone)
    ELSE /\ globals' = Append(globals, Last(globals))
         /\ locals' = Append(locals, Last(locals))
         /\ pushed' = Append(pushed, Last(globals))
         /\ Continue
         /\ UNCHANGED <<collections, bit_offset, bit_offsets, fields>>

(* Stack::pop: Vec::pop on each Vec, the results dropped.                  *)
StackPop ==
    /\ globals' = VecPop(globals)
    /\ locals' = VecPop(locals)
    /\ pushed' = VecPop(pushed)
    /\ Continue
    /\ UNCHANGED <<collections, bit_offset, bit_offsets, fields>>

GlobalPush == Process(Item("Global", "Push", 0)) /\ StackPush

GlobalPop == Process(Item("Global", "Pop", 0)) /\ StackPop

GlobalReserved == Process(Item("Global", "Reserved", 0)) /\ NoEffect

LocalUsageItem ==
    \E page \in {None} \cup {Some(p) : p \in EmbeddedPages}, id \in UsageIds :
        /\ Process(Item("Local", "Usage", LocalUsage(page, id)))
        /\ UpdateLocals("usage", LocalUsage(page, id))

LocalUsageMinimum ==
    \E v \in UsageBounds :
        /\ Process(Item("Local", "UsageMinimum", v))
        /\ UpdateLocals("usage_minimum", v)

LocalUsageMaximum ==
    \E v \in UsageBounds :
        /\ Process(Item("Local", "UsageMaximum", v))
        /\ UpdateLocals("usage_maximum", v)

LocalDesignatorIndex ==
    \E v \in LocalValues :
        /\ Process(Item("Local", "DesignatorIndex", v))
        /\ UpdateLocals("designator_index", v)

LocalDesignatorMinimum ==
    \E v \in LocalValues :
        /\ Process(Item("Local", "DesignatorMinimum", v))
        /\ UpdateLocals("designator_minimum", v)

LocalDesignatorMaximum ==
    \E v \in LocalValues :
        /\ Process(Item("Local", "DesignatorMaximum", v))
        /\ UpdateLocals("designator_maximum", v)

LocalStringIndex ==
    \E v \in LocalValues :
        /\ Process(Item("Local", "StringIndex", v))
        /\ UpdateLocals("string_index", v)

LocalStringMinimum ==
    \E v \in LocalValues :
        /\ Process(Item("Local", "StringMinimum", v))
        /\ UpdateLocals("string_minimum", v)

LocalStringMaximum ==
    \E v \in LocalValues :
        /\ Process(Item("Local", "StringMaximum", v))
        /\ UpdateLocals("string_maximum", v)

LocalDelimiter ==
    \E v \in LocalValues :
        /\ Process(Item("Local", "Delimiter", v))
        /\ UpdateLocals("delimiter", v)

LocalReserved == Process(Item("Local", "Reserved", 0)) /\ NoEffect

----------------------------------------------------------------------------
(* After the last item: fields.sort_by(report id), the printing of the     *)
(* fields, and the panic that ends parse_report_descriptor.                *)

MixedReportIds(fs) ==
    \E i, j \in 1..Len(fs) : fs[i].report_id = None /\ fs[j].report_id # None

(* The stable sort by report id: the fields without one (only when no      *)
(* field has one), else the fields of each id in ascending order.          *)
RECURSIVE SortById(_, _)
SortById(fs, ids) ==
    IF ids = {} THEN SelectSeq(fs, LAMBDA f : f.report_id = None)
    ELSE LET id == CHOOSE x \in ids : \A y \in ids : x <= y
         IN  SelectSeq(fs, LAMBDA f : f.report_id = Some(id))
                 \o SortById(fs, ids \ {id})

SortFields(fs) ==
    IF \A i \in 1..Len(fs) : fs[i].report_id = None THEN fs
    ELSE SortById(fs, {Unwrap(fs[i].report_id) : i \in 1..Len(fs)})

Finish ==
    /\ pc = "parsing"
    /\ pc' = "panicked"
    /\ IF MixedReportIds(fields)
       THEN /\ panic_msg' = "All reports must have a report ID"
            /\ UNCHANGED fields
       ELSE /\ fields' = SortFields(fields)
            /\ panic_msg' = "FIXME"
    /\ UNCHANGED <<globals, locals, collections, bit_offset, bit_offsets, item,
                   remaining, overflow_checks, pushed, popped>>

Next ==
    \/ MainCollection
    \/ MainEndCollection
    \/ MainData
    \/ LongItem
    \/ ReservedItem
    \/ GlobalUsagePage
    \/ GlobalLogicalMinimum
    \/ GlobalLogicalMaximum
    \/ GlobalPhysicalMinimum
    \/ GlobalPhysicalMaximum
    \/ GlobalUnitExponent
    \/ GlobalUnit
    \/ GlobalReportSize
    \/ GlobalReportId
    \/ GlobalReportCount
    \/ GlobalPush
    \/ GlobalPop
    \/ GlobalReserved
    \/ LocalUsageItem
    \/ LocalUsageMinimum
    \/ LocalUsageMaximum
    \/ LocalDesignatorIndex
    \/ LocalDesignatorMinimum
    \/ LocalDesignatorMaximum
    \/ LocalStringIndex
    \/ LocalStringMinimum
    \/ LocalStringMaximum
    \/ LocalDelimiter
    \/ LocalReserved
    \/ Finish

Spec == Init /\ [][Next]_vars

----------------------------------------------------------------------------
(* The globals stack alone: descriptors of Global items.                   *)

InitStack == Start(Last(StackNew.globals), MaxStackItems)

NextStack ==
    \/ GlobalUsagePage
    \/ GlobalLogicalMinimum
    \/ GlobalLogicalMaximum
    \/ GlobalPhysicalMinimum
    \/ GlobalPhysicalMaximum
    \/ GlobalUnitExponent
    \/ GlobalUnit
    \/ GlobalReportSize
    \/ GlobalReportId
    \/ GlobalReportCount
    \/ GlobalPush
    \/ GlobalPop
    \/ GlobalReserved
    \/ Finish

SpecStack == InitStack /\ [][NextStack]_vars

----------------------------------------------------------------------------
(* The field compiler: the parse continues after a prefix of Global items  *)
(* that has set the report size, the report count, the logical range, the  *)
(* usage page and possibly a report id in the one globals snapshot.        *)

ConfiguredGlobals ==
    {[DefaultGlobals EXCEPT !.report_size = Some(size),
                            !.report_count = Some(count),
                            !.logical_minimum = Some(0),
                            !.logical_maximum = Some(1),
                            !.usage_page = Some(page),
                            !.report_id = id] :
        size \in ReportSizes, count \in ReportCounts, page \in {1},
        id \in {None, Some(1)}}

InitFields == \E g \in ConfiguredGlobals : Start(g, MaxFieldItems)

NextFields ==
    \/ MainData
    \/ LocalUsageItem
    \/ LocalUsageMinimum
    \/ LocalUsageMaximum
    \/ Finish

SpecFields == InitFields /\ [][NextFields]_vars

----------------------------------------------------------------------------
(* Scopes and report ids: after the same prefix of Global items, the       *)
(* descriptor goes on with data items, Usage items, ReportId, Push and Pop.*)

InitScopes == \E g \in ConfiguredGlobals : Start(g, MaxScopeItems)

NextScopes ==
    \/ MainData
    \/ LocalUsageItem
    \/ GlobalReportId
    \/ GlobalPush
    \/ GlobalPop
    \/ Finish

SpecScopes == InitScopes /\ [][NextScopes]_vars

----------------------------------------------------------------------------
(* Value ranges: after the same prefix, the descriptor goes on with        *)
(* logical and physical bounds, Usage items and data items.                *)

InitRanges == \E g \in ConfiguredGlobals : Start(g, MaxRangeItems)

NextRanges ==
    \/ MainData
    \/ LocalUsageItem
    \/ GlobalLogicalMinimum
    \/ GlobalLogicalMaximum
    \/ GlobalPhysicalMinimum
    \/ GlobalPhysicalMaximum
    \/ Finish

SpecRanges == InitRanges /\ [][NextRanges]_vars

----------------------------------------------------------------------------
(* Collection paths: after the same prefix, the descriptor goes on with    *)
(* Collection and EndCollection items, Usage items and data items.         *)

InitCollections == \E g \in ConfiguredGlobals : Start(g, MaxCollectionItems)

NextCollections ==
    \/ MainCollection
    \/ MainEndCollection
    \/ MainData
    \/ LocalUsageItem
    \/ Finish

SpecCollections == InitCollections /\ [][NextCollections]_vars

----------------------------------------------------------------------------
(* What the claims speak of.                                               *)

IsDataItem(it) == it.class = "Main" /\ it.tag \in Directions

(* The loop has just processed an item (the step is no stuttering step and *)
(* not the end of the descriptor).                                         *)
Processed == pc = "parsing" /\ remaining' = remaining - 1

SameGroup(f1, f2) ==
    f1.direction = f2.direction /\ f1.report_id = f2.report_id

(* The fields of one (direction, report_id) group, in emission order.      *)
GroupFields(direction, report_id) ==
    SelectSeq(fields,
              LAMBDA f : f.direction = direction /\ f.report_id = report_id)

ReportIdOptions == {None} \cup {Some(id) : id \in ReportIds}

NonEmptyBits(bits) == ULe(bits.start, bits.end)

Overlap(b1, b2) ==
    /\ NonEmptyBits(b1)
    /\ NonEmptyBits(b2)
    /\ ULe(b1.start, b2.end)
    /\ ULe(b2.start, b1.end)

(* C1: any two fields emitted with the same (direction, report_id) have    *)
(* disjoint inclusive bit ranges.                                          *)
C1_DisjointBits ==
    \A i, j \in 1..Len(fields) :
        (i < j /\ SameGroup(fields[i], fields[j]))
            => ~Overlap(fields[i].bits, fields[j].bits)

(* C2: in every (direction, report_id) group the first field emitted       *)
(* starts at bit 0 and each later field starts at the bit after the        *)
(* previous field's end.                                                   *)
C2_GapFreePrefix ==
    \A direction \in Directions, id \in ReportIdOptions :
        LET gf == GroupFields(direction, id)
        IN  gf # <<>> =>
                /\ gf[1].bits.start = 0
                /\ \A k \in 2..Len(gf) :
                       gf[k].bits.start = gf[k - 1].bits.end + 1

(* The fields of a bucket: every direction shares the offset of a report   *)
(* id.                                                                     *)
BucketFields(report_id) ==
    SelectSeq(fields, LAMBDA f : f.report_id = report_id)

(* C3: after any item sequence the tracked offset of a bucket equals the   *)
(* highest end bit emitted in it plus one, every emission having advanced  *)
(* the offset by the width of its field.                                   *)
C3_OffsetIsHighestEndPlusOne ==
    \A id \in ReportIdOptions :
        LET bf == BucketFields(id)
        IN  (pc = "parsing" /\ bf # <<>>) =>
                /\ \A k \in 1..Len(bf) : ULe(bf[k].bits.end + 1, BucketOffset(id))
                /\ \E k \in 1..Len(bf) : bf[k].bits.end + 1 = BucketOffset(id)

(* C4: within one (direction, report_id) group, fields in emission order   *)
(* have strictly increasing start bits.                                    *)
C4_IncreasingStarts ==
    \A direction \in Directions, id \in ReportIdOptions :
        LET gf == GroupFields(direction, id)
        IN  \A k \in 2..Len(gf) :
                /\ ULe(gf[k - 1].bits.start, gf[k].bits.start)
                /\ gf[k - 1].bits.start # gf[k].bits.start

(* C5: after processing any Main item (Input, Output, Feature, Collection  *)
(* or EndCollection) the current locals snapshot equals the default.       *)
C5_LocalsResetAfterMain ==
    (pc = "parsing" /\ item.class = "Main" /\ locals # <<>>)
        => Last(locals) = DefaultLocals

(* C6: in every reachable parser state the globals stack holds at least    *)
(* one snapshot.                                                           *)
C6_GlobalsNonEmpty == Len(globals) >= 1

(* C7: a Pop item processed while the globals stack has height one fails   *)
(* the parse with an InvalidData error returned to the caller and does not *)
(* remove the last snapshot.                                               *)
C7_PopAtHeightOneFails ==
    [][(pc = "parsing" /\ remaining' = remaining - 1
            /\ item'.class = "Global" /\ item'.tag = "Pop" /\ Len(globals) = 1)
          => (pc' = "Err(InvalidData)" /\ globals' = globals)]_vars

(* C8: right after a Pop that has a matching Push the current globals      *)
(* snapshot equals the one that was current right before that Push, and    *)
(* right after a Push the new top equals the previous top.                 *)
C8_PushPopRoundTrip ==
    [][(Processed /\ pc' = "parsing" /\ item'.class = "Global") =>
          /\ (item'.tag = "Pop" /\ pushed # <<>>)
                 => (globals' # <<>> /\ Last(globals') = Last(pushed))
          /\ item'.tag = "Push"
                 => /\ Len(globals') = Len(globals) + 1
                    /\ Last(globals') = Last(globals)
                    /\ Front(globals') = globals]_vars

(* A Pop has restored an outer snapshot that differs both from the default *)
(* and from the inner snapshot it removed: Global items were processed     *)
(* before the Push and between the Push and the Pop.                       *)
C8_Witness ==
    /\ pc = "parsing"
    /\ item.class = "Global" /\ item.tag = "Pop"
    /\ Len(globals) = 1
    /\ popped # None
    /\ Last(globals) # DefaultGlobals
    /\ Unwrap(popped) # Last(globals)

(* C9: a non-constant Main item with is_variable set emits exactly         *)
(* report_count VariableFields, each report_size bits wide and laid out    *)
(* back to back from the bucket's offset; the k-th carries usages[k] when  *)
(* k < len(usages) and the last usage otherwise.                           *)
C9_VariableFields ==
    [][(Processed /\ pc' = "parsing" /\ IsDataItem(item')
            /\ ~item'.data.is_constant /\ item'.data.is_variable) =>
          LET g == Last(globals)
              size == Unwrap(g.report_size)
              count == Unwrap(g.report_count)
              off == BucketOffset(g.report_id)
              usages == compile_usages(g, Last(locals)).usages
              n == Len(fields)
          IN  /\ Len(fields') = n + count
              /\ SubSeq(fields', 1, n) = fields
              /\ \A k \in 0..(count - 1) :
                     LET f == fields'[n + k + 1]
                     IN  /\ f.kind = "Variable"
                         /\ f.bits.start = off + k * size
                         /\ f.bits.end = off + (k + 1) * size - 1
                         /\ f.usage = IF k < Len(usages)
                                      THEN usages[k + 1]
                                      ELSE usages[Len(usages)]]_vars

(* A variable item with report_count 3 and two usages has emitted three    *)
(* VariableFields: the third repeats the second usage, not the first.      *)
C9_Witness ==
    /\ pc = "parsing"
    /\ IsDataItem(item) /\ ~item.data.is_constant /\ item.data.is_variable
    /\ Len(fields) = 3
    /\ \A k \in 1..3 : fields[k].kind = "Variable"
    /\ fields[1].usage # fields[2].usage
    /\ fields[3].usage = fields[2].usage
    /\ fields[2].bits.start = fields[1].bits.end + 1
    /\ fields[3].bits.start = fields[2].bits.end + 1

(* The usages the resolution rule names for globals g and locals l.        *)
ResolvedUsages(g, l) ==
    IF IsSome(l.usage_minimum) /\ IsSome(l.usage_maximum)
    THEN UsageRange(Unwrap(l.usage_minimum), Unwrap(l.usage_maximum),
                    Unwrap(g.usage_page))
    ELSE <<Usage(IF IsSome(Unwrap(l.usage).usage_page)
                 THEN Unwrap(Unwrap(l.usage).usage_page)
                 ELSE Unwrap(g.usage_page),
                 Unwrap(l.usage).usage_id)>>

(* The rule has what it needs: the range with the global page, or the      *)
(* single Usage with its own or the global page.                           *)
Resolvable(g, l) ==
    IF IsSome(l.usage_minimum) /\ IsSome(l.usage_maximum)
    THEN IsSome(g.usage_page)
    ELSE IsSome(l.usage)
             /\ (IsSome(Unwrap(l.usage).usage_page) \/ IsSome(g.usage_page))

(* C10: usage resolution, seen in the ArrayField an array item emits: with *)
(* both UsageMinimum and UsageMaximum one usage per id in [min..=max] with *)
(* the global page; in every other case, also with only one of the two     *)
(* set, the single local Usage with its own page or the global one.        *)
C10_UsageResolution ==
    [][(pc = "parsing" /\ remaining' = remaining - 1 /\ IsDataItem(item')
            /\ ~item'.data.is_constant /\ ~item'.data.is_variable
            /\ globals # <<>> /\ locals # <<>>
            /\ IsSome(Last(globals).report_size)
            /\ IsSome(Last(globals).report_count)
            /\ Unwrap(Last(globals).report_count) >= 1
            /\ IsSome(Last(globals).logical_minimum)
            /\ IsSome(Last(globals).logical_maximum)
            /\ Resolvable(Last(globals), Last(locals))) =>
          /\ pc' = "parsing"
          /\ Len(fields') = Len(fields) + 1
          /\ Last(fields').kind = "Array"
          /\ Last(fields').usages = ResolvedUsages(Last(globals), Last(locals))]_vars

(* The globals a data item needs: report_size and report_count, and for a  *)
(* non-constant item the logical minimum and maximum.                      *)
MissingRequiredGlobal(g, flags) ==
    \/ ~IsSome(g.report_size)
    \/ ~IsSome(g.report_count)
    \/ ~flags.is_constant
           /\ (~IsSome(g.logical_minimum) \/ ~IsSome(g.logical_maximum))

(* C11: an Input/Output/Feature item processed while a required global is  *)
(* missing fails the parse with an InvalidData error returned to the       *)
(* caller, and no field is produced.                                       *)
C11_MissingGlobalIsInvalidData ==
    [][(pc = "parsing" /\ remaining' = remaining - 1 /\ IsDataItem(item')
            /\ globals # <<>> /\ locals # <<>>
            /\ MissingRequiredGlobal(Last(globals), item'.data))
          => (pc' = "Err(InvalidData)" /\ fields' = fields)]_vars

(* C13: at the end of a descriptor that triggers no error the parse        *)
(* returns Ok, its reports ordered by ascending report id with every       *)
(* report's fields in emission order.                                      *)
C13_ReturnsOk ==
    [][(pc = "parsing" /\ pc' # "parsing" /\ remaining' = remaining
            /\ ~MixedReportIds(fields))
          => (pc' = "Ok" /\ fields' = SortFields(fields))]_vars

(* C18: Push and Pop leave the current locals unchanged: what a Local item *)
(* set after a Push is still current after the matching Pop, and the Pop   *)
(* does not bring back the locals of before the Push.                      *)
C18_PushPopKeepLocals ==
    [][(Processed /\ item'.class = "Global" /\ locals # <<>>
            /\ (item'.tag = "Push" \/ (item'.tag = "Pop" /\ pushed # <<>>)))
          => (locals' # <<>> /\ Last(locals') = Last(locals))]_vars

(* C19: an Input/Output/Feature item processed with report_count 0 emits   *)
(* no field (none that covers a bit, none with end < start), does not      *)
(* underflow, and leaves the offset of its bucket unchanged.               *)
C19_ZeroCountEmitsNothing ==
    [][(pc = "parsing" /\ remaining' = remaining - 1 /\ IsDataItem(item')
            /\ globals # <<>> /\ locals # <<>>
            /\ IsSome(Last(globals).report_size)
            /\ Last(globals).report_count = Some(0)
            /\ (item'.data.is_constant \/ item'.data.is_variable
                    \/ (/\ IsSome(Last(globals).logical_minimum)
                        /\ IsSome(Last(globals).logical_maximum)
                        /\ compile_usages(Last(globals), Last(locals)).panic = "")))
          => /\ pc' = "parsing"
             /\ fields' = fields
             /\ BucketOffset(Last(globals).report_id)'
                    = BucketOffset(Last(globals).report_id)]_vars

(* Some single direction holds a field with a report id and one without.   *)
MixedWithinDirection(fs) ==
    \E d \in Directions :
        MixedReportIds(SelectSeq(fs, LAMBDA f : f.direction = d))

(* C12: the report-id ordering step at the end of the descriptor rejects   *)
(* the fields for mixed report id presence exactly when some single        *)
(* direction holds both a field with a report id and a field without one.  *)
C12_ReportIdDisciplinePerDirection ==
    [][(pc = "parsing" /\ pc' # "parsing" /\ remaining' = remaining) =>
          ((panic_msg' = "All reports must have a report ID")
               <=> MixedWithinDirection(fields))]_vars

(* C17: as long as no Pop was processed at globals height one, no step     *)
(* finds a stack empty: the locals stack holds a current snapshot and no   *)
(* item panics in unwrap().                                                *)
C17_NoEmptyStackAccess ==
    globals # <<>> => (locals # <<>> /\ panic_msg # UnwrapNone)

(* C14: a data item that is not constant and is processed while the       *)
(* logical minimum exceeds the logical maximum is rejected with            *)
(* InvalidData and emits no field, so that every Variable or Array field   *)
(* has logical minimum <= logical maximum.  The item has the globals it    *)
(* requires, a nonzero count and a usage to resolve.                       *)
C14_InvertedRangeRejected ==
    [][(/\ Processed
        /\ IsDataItem(item')
        /\ ~item'.data.is_constant
        /\ globals # <<>>
        /\ locals # <<>>
        /\ IsSome(Last(globals).logical_minimum)
        /\ IsSome(Last(globals).logical_maximum)
        /\ Unwrap(Last(globals).logical_minimum)
               > Unwrap(Last(globals).logical_maximum)
        /\ Last(globals).report_count # Some(0)
        /\ Resolvable(Last(globals), Last(locals)))
          => (pc' = "Err(InvalidData)" /\ fields' = fields)]_vars

(* C15: a Collection item appends to the collection path and an            *)
(* EndCollection item removes its innermost entry; a data item leaves the  *)
(* path alone and every Variable or Array field it emits carries the path  *)
(* as it was when the item was processed; no item changes a field that     *)
(* was emitted before it.                                                  *)
C15_CollectionPathSnapshot ==
    [][Processed =>
          /\ Len(fields') >= Len(fields)
          /\ SubSeq(fields', 1, Len(fields)) = fields
          /\ \A k \in (Len(fields) + 1)..Len(fields') :
                 fields'[k].kind # "Constant"
                     => fields'[k].collections = collections
          /\ (item'.class = "Main" /\ item'.tag = "Collection")
                 => collections' = collections \o <<item'.data>>
          /\ (item'.class = "Main" /\ item'.tag = "EndCollection")
                 => collections' = IF collections = <<>> THEN <<>>
                                    ELSE Front(collections)
          /\ IsDataItem(item') => collections' = collections]_vars

(* A field emitted inside a collection that has since been closed.         *)
C15_Witness ==
    \E k \in 1..Len(fields) :
        /\ fields[k].kind # "Constant"
        /\ fields[k].collections # <<>>
        /\ Len(collections) < Len(fields[k].collections)

(* The usages a Variable or Array field carries.                           *)
FieldUsages(f) == IF f.kind = "Variable" THEN <<f.usage>> ELSE f.usages

(* C16: a Usage item, with or without an embedded usage page, is recorded  *)
(* in the locals and leaves every globals snapshot unchanged; a data item  *)
(* compiled from a Usage with an embedded page emits fields carrying that  *)
(* page, and one compiled from a Usage without embedded page emits fields  *)
(* carrying the global usage page.  (With UsageMinimum set the range is    *)
(* compiled instead of the Usage.)                                         *)
C16_EmbeddedPageIsLocal ==
    [][(Processed /\ globals # <<>> /\ locals # <<>>) =>
          /\ (item'.class = "Local" /\ item'.tag = "Usage")
                 => /\ globals' = globals
                    /\ locals' # <<>>
                    /\ Last(locals').usage = Some(item'.data)
          /\ (/\ IsDataItem(item')
              /\ ~item'.data.is_constant
              /\ ~IsSome(Last(locals).usage_minimum)
              /\ IsSome(Last(locals).usage)
              /\ pc' = "parsing")
                 => /\ globals' = globals
                    /\ \A k \in (Len(fields) + 1)..Len(fields') :
                         \A n \in 1..Len(FieldUsages(fields'[k])) :
                           FieldUsages(fields'[k])[n].usage_page =
                             IF IsSome(Unwrap(Last(locals).usage).usage_page)
                             THEN Unwrap(Unwrap(Last(locals).usage).usage_page)
                             ELSE Unwrap(Last(globals).usage_page)]_vars

(* A field carrying an embedded page is followed by a field carrying the   *)
(* global usage page, which is still what it was.                          *)
C16_Witness ==
    /\ globals # <<>>
    /\ IsSome(Last(globals).usage_page)
    /\ \E j, k \in 1..Len(fields) :
        /\ j < k
        /\ fields[j].kind # "Constant" /\ fields[k].kind # "Constant"
        /\ FieldUsages(fields[j]) # <<>> /\ FieldUsages(fields[k]) # <<>>
        /\ FieldUsages(fields[j])[1].usage_page \in EmbeddedPages
        /\ FieldUsages(fields[j])[1].usage_page
               # Unwrap(Last(globals).usage_page)
        /\ FieldUsages(fields[k])[1].usage_page
               = Unwrap(Last(globals).usage_page)

====
